---- MODULE Spec2Model ----
(***************************************************************************)
(* The generic CRUD helper of package crud and its filter compiler         *)
(* applyFilter.  The query-building handle (bun's SelectQuery and the      *)
(* insert/update/delete builders) is an external library: it is modelled   *)
(* as the record of what the calls made on it accumulate (limit, offset,   *)
(* order, predicates) together with the log of those calls.  The store is  *)
(* modelled by the outcome of the one execution call, chosen freely.       *)
(***************************************************************************)
EXTENDS Integers, Sequences, FiniteSets, TLC

VARIABLES filter, before, query, op, answer, ret, execs, firsts

vars == <<filter, before, query, op, answer, ret, execs, firsts>>

\* Largest number of conditions a Filter of the model holds, all lists together.
MaxConds == 2

(***************************************************************************)
(* Values.  A condition's value is an int, an int64 or a string; once      *)
(* passed to the builder as `any` it keeps its dynamic type.               *)
(***************************************************************************)
IntV(n) == [t |-> "int", v |-> n]

Int64V(n) == [t |-> "int64", v |-> n]

StrV(s) == [t |-> "string", v |-> s]

KV(k, v) == [Key |-> k, Value |-> v]

\* The conditions the model's callers put into the three kinds of list.
IntKVs == {KV("a", IntV(1)), KV("b", IntV(2))}

Int64KVs == {KV("id", Int64V(42)), KV("a", Int64V(1))}

StringKVs == {KV("x", StrV("p")), KV("y", StrV("q"))}

\* Limit and Offset values: negative, zero (unset) and positive.
LimitVals == {-1, 0, 2}

OffsetVals == {-1, 0, 3}

IntLists == {"AndInt", "OrInt", "WhereInt"}

Int64Lists == {"AndInt64", "OrInt64", "WhereInt64"}

StringLists == {"AndString", "OrString", "WhereString"}

ListNames == IntLists \cup Int64Lists \cup StringLists

KVsOf(list) ==
    IF list \in IntLists THEN IntKVs
    ELSE IF list \in Int64Lists THEN Int64KVs
    ELSE StringKVs

\* The zero value Filter{}.
Filter ==
    [OrInt64 |-> <<>>, OrInt |-> <<>>, OrString |-> <<>>,
     AndInt |-> <<>>, AndInt64 |-> <<>>, AndString |-> <<>>,
     WhereInt |-> <<>>, WhereInt64 |-> <<>>, WhereString |-> <<>>,
     Limit |-> 0, Offset |-> 0]

NumConds(f) ==
    Len(f.OrInt64) + Len(f.OrInt) + Len(f.OrString)
    + Len(f.AndInt) + Len(f.AndInt64) + Len(f.AndString)
    + Len(f.WhereInt) + Len(f.WhereInt64) + Len(f.WhereString)

(***************************************************************************)
(* The query-building handle.                                              *)
(***************************************************************************)
\* A call made on a handle, as the log keeps it.
Call(name, q, a) == [op |-> name, query |-> q, arg |-> a]

\* A predicate of the handle: its separator, its template and its argument.
Pred(s, q, a) == [sep |-> s, query |-> q, arg |-> a]

\* db.NewSelect(), db.NewInsert(), ...: a handle nothing was called on.
NewQuery(verb) ==
    [verb |-> verb, model |-> "", limit |-> 0, offset |-> 0,
     order |-> <<>>, where |-> <<>>, calls |-> <<>>]

Model(q, m) == [q EXCEPT !.model = m]

Order(q, o) ==
    [q EXCEPT !.order = Append(@, o),
              !.calls = Append(@, Call("Order", o, IntV(0)))]

Limit(q, n) ==
    [q EXCEPT !.limit = n,
              !.calls = Append(@, Call("Limit", "", IntV(n)))]

Offset(q, n) ==
    [q EXCEPT !.offset = n,
              !.calls = Append(@, Call("Offset", "", IntV(n)))]

Where(q, cond, a) ==
    [q EXCEPT !.where = Append(@, Pred(" AND ", cond, a)),
              !.calls = Append(@, Call("Where", cond, a))]

WhereOr(q, cond, a) ==
    [q EXCEPT !.where = Append(@, Pred(" OR ", cond, a)),
              !.calls = Append(@, Call("WhereOr", cond, a))]

\* fmt.Sprintf("%s = ?", key)
Sprintf(key) == key \o " = ?"

(***************************************************************************)
(* applyFilter.                                                            *)
(***************************************************************************)
\* for _, kv := range kvs { query = query.Where(Sprintf(kv.Key), kv.Value) }
RECURSIVE rangeWhere(_, _)
rangeWhere(q, kvs) ==
    IF kvs = <<>> THEN q
    ELSE rangeWhere(Where(q, Sprintf(Head(kvs).Key), Head(kvs).Value), Tail(kvs))

\* for _, kv := range kvs { query = query.WhereOr(Sprintf(kv.Key), kv.Value) }
RECURSIVE rangeWhereOr(_, _)
rangeWhereOr(q, kvs) ==
    IF kvs = <<>> THEN q
    ELSE rangeWhereOr(WhereOr(q, Sprintf(Head(kvs).Key), Head(kvs).Value), Tail(kvs))

\* Mutant: the directives are also recorded for a Limit or Offset of zero.
applyPaginationNonNegative(q, f) ==
    LET q1 == IF f.Limit >= 0 THEN Limit(q, f.Limit) ELSE q
    IN  IF f.Offset >= 0 THEN Offset(q1, f.Offset) ELSE q1

\* if filter.Limit > 0 { Limit }; if filter.Offset > 0 { Offset }
applyPagination(q, f) ==
    LET q1 == IF f.Limit > 0 THEN Limit(q, f.Limit) ELSE q
    IN  IF f.Offset > 0 THEN Offset(q1, f.Offset) ELSE q1

\* Mutant: the AndInt64 list is walked before the AndInt list.
applyAndInt64First(q, f) ==
    rangeWhere(rangeWhere(rangeWhere(q, f.AndInt64), f.AndInt), f.AndString)

\* The three loops over AndInt, AndInt64, AndString.
applyAnd(q, f) ==
    rangeWhere(rangeWhere(rangeWhere(q, f.AndInt), f.AndInt64), f.AndString)

\* Mutant: the OR lists are recorded with Where.
applyOrAsWhere(q, f) ==
    rangeWhere(rangeWhere(rangeWhere(q, f.OrInt), f.OrInt64), f.OrString)

\* The three loops over OrInt, OrInt64, OrString.
applyOr(q, f) ==
    rangeWhereOr(rangeWhereOr(rangeWhereOr(q, f.OrInt), f.OrInt64), f.OrString)

\* Mutant: the WhereString list is walked first.
applyWhereStringFirst(q, f) ==
    rangeWhere(rangeWhere(rangeWhere(q, f.WhereString), f.WhereInt), f.WhereInt64)

\* Mutant: the WHERE lists are recorded with WhereOr.
applyWhereAsOr(q, f) ==
    rangeWhereOr(rangeWhereOr(rangeWhereOr(q, f.WhereInt), f.WhereInt64), f.WhereString)

\* Mutant: the loop over WhereInt64 is missing.
applyWhereDropsInt64(q, f) ==
    rangeWhere(rangeWhere(q, f.WhereInt), f.WhereString)

\* The three loops over WhereInt, WhereInt64, WhereString.
applyWhere(q, f) ==
    rangeWhere(rangeWhere(rangeWhere(q, f.WhereInt), f.WhereInt64), f.WhereString)

\* The handle applyFilter returns.
compile(q, f) == applyWhere(applyOr(applyAnd(applyPagination(q, f), f), f), f)

\* Mutant: the compiler empties the caller's lists as it walks them.
applyFilterConsuming(q, f) ==
    [query |-> compile(q, f),
     filter |-> [Filter EXCEPT !.Limit = f.Limit, !.Offset = f.Offset]]

\* applyFilter's effect: the handle it returns and the caller's Filter after
\* the call (the Filter is passed by value and its lists are only read).
applyFilter(q, f) == [query |-> compile(q, f), filter |-> f]

(***************************************************************************)
(* Filter constructors.                                                    *)
(***************************************************************************)
WhereEmailFilter(email) == [Filter EXCEPT !.WhereString = <<KV("email", StrV(email))>>]

WhereIdFilter(id) == [Filter EXCEPT !.WhereInt64 = <<KV("id", Int64V(id))>>]

WhereSlugFilter(slug) == [Filter EXCEPT !.WhereString = <<KV("slug", StrV(slug))>>]

WhereSlugOrId(slug, id) ==
    [Filter EXCEPT !.WhereString = <<KV("slug", StrV(slug))>>,
                   !.WhereInt64 = <<KV("id", Int64V(id))>>]

(***************************************************************************)
(* The store and the errors.  An error is the chain of its messages, the   *)
(* outermost first; nil is the empty chain.                                *)
(***************************************************************************)
nil == <<>>

\* fmt.Errorf(prefix + ": %w", err)
Errorf(prefix, err) == <<prefix>> \o err

\* errors.Unwrap(err)
Unwrap(err) == Tail(err)

StoreErrs == {"sql: no rows in result set", "connection refused"}

\* Identifiers a successful Scan(ctx, &id) may leave in id.
ScanIds == {-1, 0, 1, 7}

\* What the store answers to one execution call: the error and, for a scan
\* into an identifier, the identifier scanned (0 when nothing was scanned).
Outcome(e, n) == [err |-> e, id |-> n]

ExecOutcomes == {Outcome(nil, 0)} \cup {Outcome(<<e>>, 0) : e \in StoreErrs}

ScanIdOutcomes ==
    {Outcome(nil, n) : n \in ScanIds} \cup {Outcome(<<e>>, 0) : e \in StoreErrs}

\* What an operation returns: its error and (Exists only) its boolean.
Ret(e, b) == [err |-> e, ok |-> b]

\* What an operation did: the handle handed to applyFilter (or built, when the
\* operation takes no Filter), the handle executed, the caller's Filter after
\* the call, the execution calls made and the value returned.
Done(b, q, f, x, r) == [before |-> b, query |-> q, filter |-> f, execs |-> x, ret |-> r]

wrap(prefix, r) == IF r.err # nil THEN Errorf(prefix, r.err) ELSE nil

(***************************************************************************)
(* The CRUD operations.  r is the store's answer to the execution call.    *)
(***************************************************************************)
Create(f, a, r) ==
    LET q == Model(NewQuery("INSERT"), a)
    IN  Done(q, q, f, <<q>>, Ret(wrap("insert error", r), FALSE))

Add(f, a, r) ==
    LET q == Model(NewQuery("INSERT"), a)
    IN  Done(q, q, f, <<q>>, Ret(wrap("insert error", r), FALSE))

Update(f, a, r) ==
    LET q == Model(NewQuery("UPDATE"), a)
    IN  Done(q, q, f, <<q>>, Ret(wrap("update error", r), FALSE))

\* Mutant: the store's error is dropped.
DeleteSwallows(f, id, r) ==
    LET q == Where(Model(NewQuery("DELETE"), "m"), "id = ?", Int64V(id))
    IN  Done(q, q, f, <<q>>, Ret(nil, FALSE))

Delete(f, id, r) ==
    LET q == Where(Model(NewQuery("DELETE"), "m"), "id = ?", Int64V(id))
    IN  Done(q, q, f, <<q>>, Ret(wrap("delete error", r), FALSE))

List(f, r) ==
    LET b == Order(Model(NewQuery("SELECT"), "results"), "id DESC")
        c == applyFilter(b, f)
    IN  Done(b, c.query, c.filter, <<c.query>>, Ret(wrap("list error", r), FALSE))

Get(f, r) ==
    LET b == Model(NewQuery("SELECT"), "result")
        c == applyFilter(b, f)
    IN  Done(b, c.query, c.filter, <<c.query>>, Ret(wrap("get error", r), FALSE))

\* Mutant: a failed scan reports true.
ExistsTrueOnError(f, r) ==
    LET b == Model(NewQuery("SELECT"), "result")
        c == applyFilter(b, f)
    IN  Done(b, c.query, c.filter, <<c.query>>, Ret(nil, r.err # nil \/ r.id > 0))

\* Mutant: the identifier 0 counts as found.
ExistsNonNegative(f, r) ==
    LET b == Model(NewQuery("SELECT"), "result")
        c == applyFilter(b, f)
    IN  Done(b, c.query, c.filter, <<c.query>>,
             Ret(nil, IF r.err # nil THEN FALSE ELSE r.id >= 0))

Exists(f, r) ==
    LET b == Model(NewQuery("SELECT"), "result")
        c == applyFilter(b, f)
    IN  Done(b, c.query, c.filter, <<c.query>>,
             Ret(nil, IF r.err # nil THEN FALSE ELSE r.id > 0))

GetBy(f, field, value, r) ==
    LET q == Where(Model(NewQuery("SELECT"), "result"), Sprintf(field), value)
    IN  Done(q, q, f, <<q>>, Ret(wrap("getBy error", r), FALSE))

(***************************************************************************)
(* The state machine: a caller builds a Filter, then calls operations.     *)
(*   filter  the caller's Filter value                                     *)
(*   before  the handle the last operation handed to applyFilter (the      *)
(*           handle it built, when it takes no Filter)                     *)
(*   query   the handle the last operation got back and executed           *)
(*   op      the last operation                                            *)
(*   answer  the store's answer to its execution call                      *)
(*   ret     what it returned                                              *)
(*   execs   the handles it executed, in order                             *)
(*   firsts  the handles returned by the first two compilations of this    *)
(*           Filter value that started from a fresh handle                 *)
(***************************************************************************)
\* db.NewSelect().Model(&result): the fresh handle Get and Exists compile on.
Fresh == Model(NewQuery("SELECT"), "result")

\* db.NewSelect().Model(&results).Order("id DESC"): the handle List compiles on.
Ordered == Order(Model(NewQuery("SELECT"), "results"), "id DESC")

\* A handle that already carries a limit, an offset and two predicates.
Used == WhereOr(Where(Offset(Limit(Fresh, 5), 7), "z = ?", IntV(9)), "w = ?", StrV("u"))

\* The handles applyFilter is called on directly.
Handles == {Fresh, Ordered, Used}

Models == {"m"}

Ids == {42}

Slugs == {"abc"}

Emails == {"e@x"}

NoAnswer == Outcome(nil, 0)

NoRet == Ret(nil, FALSE)

\* A Filter literal with a condition in every list and two in AndInt.
FullFilter ==
    [OrInt64 |-> <<KV("id", Int64V(42))>>, OrInt |-> <<KV("b", IntV(2))>>,
     OrString |-> <<KV("y", StrV("q"))>>,
     AndInt |-> <<KV("a", IntV(1)), KV("b", IntV(2))>>,
     AndInt64 |-> <<KV("a", Int64V(1))>>, AndString |-> <<KV("x", StrV("p"))>>,
     WhereInt |-> <<KV("a", IntV(1))>>, WhereInt64 |-> <<KV("id", Int64V(42))>>,
     WhereString |-> <<KV("y", StrV("q"))>>,
     Limit |-> 2, Offset |-> 3]

Init ==
    /\ filter = Filter
    /\ before = Fresh
    /\ query = Fresh
    /\ op = "none"
    /\ answer = NoAnswer
    /\ ret = NoRet
    /\ execs = <<>>
    /\ firsts = <<>>

\* The caller holds a new Filter value: nothing has been done with it yet.
Reset ==
    /\ before' = Fresh
    /\ query' = Fresh
    /\ op' = "none"
    /\ answer' = NoAnswer
    /\ ret' = NoRet
    /\ execs' = <<>>
    /\ firsts' = <<>>

\* filter.<list> = append(filter.<list>, kv)
AppendKV ==
    \E list \in ListNames : \E kv \in KVsOf(list) :
        /\ NumConds(filter) < MaxConds
        /\ filter' = [filter EXCEPT ![list] = Append(@, kv)]
        /\ Reset

SetLimit ==
    \E n \in LimitVals :
        /\ n # filter.Limit
        /\ filter' = [filter EXCEPT !.Limit = n]
        /\ Reset

SetOffset ==
    \E n \in OffsetVals :
        /\ n # filter.Offset
        /\ filter' = [filter EXCEPT !.Offset = n]
        /\ Reset

NewFullFilter ==
    /\ filter' = FullFilter
    /\ Reset

NewWhereEmailFilter ==
    \E e \in Emails :
        /\ filter' = WhereEmailFilter(e)
        /\ Reset

NewWhereIdFilter ==
    \E id \in Ids :
        /\ filter' = WhereIdFilter(id)
        /\ Reset

NewWhereSlugFilter ==
    \E s \in Slugs :
        /\ filter' = WhereSlugFilter(s)
        /\ Reset

NewWhereSlugOrId ==
    \E s \in Slugs, id \in Ids :
        /\ filter' = WhereSlugOrId(s, id)
        /\ Reset

\* The last operation ran against a store answering r, and did d.
Ran(r, d) ==
    /\ answer' = r
    /\ filter' = d.filter
    /\ before' = d.before
    /\ query' = d.query
    /\ ret' = d.ret
    /\ execs' = d.execs
    /\ firsts' = IF d.before = Fresh /\ Len(firsts) < 2
                 THEN Append(firsts, d.query) ELSE firsts

CallApplyFilter ==
    \E h \in Handles :
        /\ op' = "applyFilter"
        /\ LET c == applyFilter(h, filter)
           IN  Ran(NoAnswer, Done(h, c.query, c.filter, <<>>, NoRet))

CallCreate ==
    \E a \in Models, r \in ExecOutcomes :
        /\ op' = "Create"
        /\ Ran(r, Create(filter, a, r))

CallAdd ==
    \E a \in Models, r \in ExecOutcomes :
        /\ op' = "Add"
        /\ Ran(r, Add(filter, a, r))

CallUpdate ==
    \E a \in Models, r \in ExecOutcomes :
        /\ op' = "Update"
        /\ Ran(r, Update(filter, a, r))

CallDelete ==
    \E id \in Ids, r \in ExecOutcomes :
        /\ op' = "Delete"
        /\ Ran(r, Delete(filter, id, r))

CallList ==
    \E r \in ExecOutcomes :
        /\ op' = "List"
        /\ Ran(r, List(filter, r))

CallGet ==
    \E r \in ExecOutcomes :
        /\ op' = "Get"
        /\ Ran(r, Get(filter, r))

CallExists ==
    \E r \in ScanIdOutcomes :
        /\ op' = "Exists"
        /\ Ran(r, Exists(filter, r))

CallGetBy ==
    \E kv \in StringKVs, r \in ExecOutcomes :
        /\ op' = "GetBy"
        /\ Ran(r, GetBy(filter, kv.Key, kv.Value, r))

\* The filter compiler on its own: any Filter of the bounds, any handle.
Next ==
    \/ AppendKV
    \/ SetLimit
    \/ SetOffset
    \/ NewFullFilter
    \/ NewWhereEmailFilter
    \/ NewWhereIdFilter
    \/ NewWhereSlugFilter
    \/ NewWhereSlugOrId
    \/ CallApplyFilter

Spec == Init /\ [][Next]_vars

\* The CRUD operations, on the Filters the package's constructors build.
NextCrud ==
    \/ SetLimit
    \/ SetOffset
    \/ NewWhereEmailFilter
    \/ NewWhereIdFilter
    \/ NewWhereSlugFilter
    \/ NewWhereSlugOrId
    \/ CallCreate
    \/ CallAdd
    \/ CallUpdate
    \/ CallDelete
    \/ CallList
    \/ CallGet
    \/ CallExists
    \/ CallGetBy

SpecCrud == Init /\ [][NextCrud]_vars

(***************************************************************************)
(* Vocabulary of the properties.                                           *)
(***************************************************************************)
\* The last operation compiled the Filter onto the handle `before`.
Compiled == op \in {"applyFilter", "List", "Get", "Exists"}

\* The calls the last operation added to the handle's log.
Added == SubSeq(query.calls, Len(before.calls) + 1, Len(query.calls))

\* The predicates the last operation added to the handle.
AddedPreds == SubSeq(query.where, Len(before.where) + 1, Len(query.where))

IsPagination(c) == c.op \in {"Limit", "Offset"}

IsPredicate(c) == c.op \in {"Where", "WhereOr"}

\* The calls that record the conditions kvs as conjunctive equalities.
Conj(kvs) == [i \in 1..Len(kvs) |-> Call("Where", kvs[i].Key \o " = ?", kvs[i].Value)]

\* The calls that record the conditions kvs as disjunctive equalities.
Disj(kvs) == [i \in 1..Len(kvs) |-> Call("WhereOr", kvs[i].Key \o " = ?", kvs[i].Value)]

\* The predicates of the conditions kvs, joined by sep.
Preds(sep, kvs) == [i \in 1..Len(kvs) |-> Pred(sep, kvs[i].Key \o " = ?", kvs[i].Value)]

Count(x, seq) == Cardinality({i \in DOMAIN seq : seq[i] = x})

Range(seq) == {seq[i] : i \in DOMAIN seq}

SameBag(s, t) ==
    /\ Len(s) = Len(t)
    /\ \A x \in Range(s) \cup Range(t) : Count(x, s) = Count(x, t)

AndConds(f) == f.AndInt \o f.AndInt64 \o f.AndString

OrConds(f) == f.OrInt \o f.OrInt64 \o f.OrString

WhereConds(f) == f.WhereInt \o f.WhereInt64 \o f.WhereString

(***************************************************************************)
(* C1: applyFilter issues its steps in one fixed order: limit, offset,     *)
(* then a conjunctive equality per AND condition (AndInt, AndInt64,        *)
(* AndString), a disjunctive one per OR condition (OrInt, OrInt64,         *)
(* OrString), a conjunctive one per WHERE condition (WhereInt, WhereInt64, *)
(* WhereString), each list in insertion order.                             *)
(***************************************************************************)
C1_FixedOrder ==
    Compiled =>
        LET pag == SelectSeq(Added, IsPagination)
            preds == SelectSeq(Added, IsPredicate)
        IN  /\ Added = pag \o preds
            /\ \A i, j \in DOMAIN pag :
                   pag[i].op = "Limit" /\ pag[j].op = "Offset" => i < j
            /\ preds = Conj(filter.AndInt) \o Conj(filter.AndInt64)
                       \o Conj(filter.AndString)
                       \o Disj(filter.OrInt) \o Disj(filter.OrInt64)
                       \o Disj(filter.OrString)
                       \o Conj(filter.WhereInt) \o Conj(filter.WhereInt64)
                       \o Conj(filter.WhereString)

\* A Filter with a limit, an offset and every list filled was compiled.
C1_Witness ==
    /\ op = "applyFilter"
    /\ filter = FullFilter
    /\ Len(Added) = 12

(***************************************************************************)
(* C2 as stated: the Filter of WhereSlugOrId("abc", 42) compiles on a      *)
(* fresh handle to exactly two conjunctive predicates, slug = "abc" first  *)
(* and id = 42 second.                                                     *)
(***************************************************************************)
C2_SlugThenId ==
    (op = "applyFilter" /\ before = Fresh /\ filter = WhereSlugOrId("abc", 42)) =>
        query.where = <<Pred(" AND ", "slug = ?", StrV("abc")),
                        Pred(" AND ", "id = ?", Int64V(42))>>

(***************************************************************************)
(* C2 amended: the Filter of WhereSlugOrId("abc", 42) compiles on a fresh  *)
(* handle to exactly two conjunctive predicates, id = 42 first and         *)
(* slug = "abc" second (the int64 list is walked before the string list).  *)
(***************************************************************************)
C2_IdThenSlug ==
    (op = "applyFilter" /\ before = Fresh /\ filter = WhereSlugOrId("abc", 42)) =>
        /\ query.where = <<Pred(" AND ", "id = ?", Int64V(42)),
                           Pred(" AND ", "slug = ?", StrV("abc"))>>
        /\ query.calls = <<Call("Where", "id = ?", Int64V(42)),
                           Call("Where", "slug = ?", StrV("abc"))>>

C2_Witness ==
    /\ op = "applyFilter"
    /\ before = Fresh
    /\ filter = WhereSlugOrId("abc", 42)
    /\ Len(query.where) = 2

(***************************************************************************)
(* C3.  f with every AND condition moved into the WHERE list of the same   *)
(* value type, behind (MovedBehind) or ahead of (MovedAhead) the WHERE     *)
(* conditions f already has.                                               *)
(***************************************************************************)
MovedBehind(f) ==
    [f EXCEPT !.AndInt = <<>>, !.AndInt64 = <<>>, !.AndString = <<>>,
              !.WhereInt = f.WhereInt \o f.AndInt,
              !.WhereInt64 = f.WhereInt64 \o f.AndInt64,
              !.WhereString = f.WhereString \o f.AndString]

MovedAhead(f) ==
    [f EXCEPT !.AndInt = <<>>, !.AndInt64 = <<>>, !.AndString = <<>>,
              !.WhereInt = f.AndInt \o f.WhereInt,
              !.WhereInt64 = f.AndInt64 \o f.WhereInt64,
              !.WhereString = f.AndString \o f.WhereString]

(***************************************************************************)
(* C3 as stated: on a fresh handle a Filter and the Filter with its AND    *)
(* conditions moved into the WHERE lists compile to the same sequence of   *)
(* steps.                                                                  *)
(***************************************************************************)
C3_SameSequence ==
    (op = "applyFilter" /\ before = Fresh) =>
        \/ applyFilter(Fresh, MovedBehind(filter)).query = query
        \/ applyFilter(Fresh, MovedAhead(filter)).query = query

(***************************************************************************)
(* C3 amended: moving the AND conditions into the WHERE lists keeps the    *)
(* limit, the offset and the steps as a multiset (same kind, field and     *)
(* value, as many times), and keeps the sequence itself when the Filter    *)
(* has no OR and no WHERE condition; the positions may differ otherwise.   *)
(***************************************************************************)
C3_SameSteps ==
    (op = "applyFilter" /\ before = Fresh) =>
        \A g \in {MovedBehind(filter), MovedAhead(filter)} :
            LET moved == applyFilter(Fresh, g).query
            IN  /\ moved.limit = query.limit
                /\ moved.offset = query.offset
                /\ SameBag(moved.calls, query.calls)
                /\ SameBag(moved.where, query.where)
                /\ (OrConds(filter) = <<>> /\ WhereConds(filter) = <<>>)
                       => moved = query

\* A Filter with AND and OR conditions was compiled: moving changes positions.
C3_Witness ==
    /\ op = "applyFilter"
    /\ before = Fresh
    /\ AndConds(filter) # <<>>
    /\ OrConds(filter) # <<>>
    /\ applyFilter(Fresh, MovedBehind(filter)).query # query

(***************************************************************************)
(* C4: a limit directive is recorded iff Filter.Limit > 0, then exactly    *)
(* one, with value Filter.Limit; likewise the offset; a zero or negative   *)
(* Limit or Offset records nothing and leaves the handle's limit or        *)
(* offset as it was.                                                       *)
(***************************************************************************)
IsLimit(c) == c.op = "Limit"

IsOffset(c) == c.op = "Offset"

C4_Pagination ==
    Compiled =>
        /\ IF filter.Limit > 0
           THEN /\ SelectSeq(Added, IsLimit) = <<Call("Limit", "", IntV(filter.Limit))>>
                /\ query.limit = filter.Limit
           ELSE /\ SelectSeq(Added, IsLimit) = <<>>
                /\ query.limit = before.limit
        /\ IF filter.Offset > 0
           THEN /\ SelectSeq(Added, IsOffset) = <<Call("Offset", "", IntV(filter.Offset))>>
                /\ query.offset = filter.Offset
           ELSE /\ SelectSeq(Added, IsOffset) = <<>>
                /\ query.offset = before.offset

\* A positive Limit and a negative Offset were compiled onto a handle that
\* already had a limit and an offset.
C4_Witness ==
    /\ op = "applyFilter"
    /\ before = Used
    /\ filter.Limit > 0
    /\ filter.Offset < 0
    /\ query.limit = filter.Limit
    /\ query.offset = 7

(***************************************************************************)
(* C5: a Filter with no AND and no WHERE condition compiles to no          *)
(* conjunctive predicate and to one disjunctive predicate per OR           *)
(* condition, OrInt then OrInt64 then OrString, each in insertion order.   *)
(***************************************************************************)
IsConjunctive(p) == p.sep = " AND "

IsDisjunctive(p) == p.sep = " OR "

C5_OnlyOr ==
    (Compiled /\ AndConds(filter) = <<>> /\ WhereConds(filter) = <<>>) =>
        /\ SelectSeq(AddedPreds, IsConjunctive) = <<>>
        /\ AddedPreds = Preds(" OR ", filter.OrInt) \o Preds(" OR ", filter.OrInt64)
                        \o Preds(" OR ", filter.OrString)

\* The OR list [(x, "p"), (y, "q")] alone was compiled.
C5_Witness ==
    /\ op = "applyFilter"
    /\ filter = [Filter EXCEPT !.OrString = <<KV("x", StrV("p")), KV("y", StrV("q"))>>]
    /\ Len(AddedPreds) = 2

Prefix(name) ==
    CASE name \in {"Create", "Add"} -> "insert error"
      [] name = "Update" -> "update error"
      [] name = "Delete" -> "delete error"
      [] name = "List" -> "list error"
      [] name = "Get" -> "get error"
      [] name = "GetBy" -> "getBy error"

C7_Propagates ==
    op \in {"Create", "Add", "Update", "Delete", "List", "Get", "GetBy"} =>
        /\ Len(execs) = 1
        /\ execs[1] = query
        /\ IF answer.err = nil
           THEN ret.err = nil
           ELSE /\ ret.err # nil
                /\ Head(ret.err) = Prefix(op)
                /\ Unwrap(ret.err) = answer.err

\* Delete ran against a store that failed.
C7_Witness ==
    /\ op = "Delete"
    /\ answer.err = <<"connection refused">>
    /\ ret.err = <<"delete error", "connection refused">>

(***************************************************************************)
(* C8: Exists reports no error; whenever the store call fails, whatever    *)
(* the failure, it returns false.                                          *)
(***************************************************************************)
C8_ExistsCollapses ==
    op = "Exists" =>
        /\ ret.err = nil
        /\ answer.err # nil => ret.ok = FALSE

\* Exists ran against a store that failed with something else than no rows.
C8_Witness ==
    /\ op = "Exists"
    /\ answer.err = <<"connection refused">>
    /\ ret = Ret(nil, FALSE)

(***************************************************************************)
(* C9: Exists returns true iff the store call succeeds and the identifier  *)
(* scanned is strictly positive.                                           *)
(***************************************************************************)
C9_ExistsPositiveId ==
    op = "Exists" => (ret.ok <=> (answer.err = nil /\ answer.id > 0))

\* The scan succeeded with identifier 0 and Exists returned false.
C9_Witness ==
    /\ op = "Exists"
    /\ answer = Outcome(nil, 0)
    /\ ret.ok = FALSE

(***************************************************************************)
(* C10: applyFilter appends as many conjunctive predicates as the six AND  *)
(* and WHERE lists hold conditions and as many disjunctive ones as the     *)
(* three OR lists hold, each appended predicate being the equality of one  *)
(* condition of its own, and keeps the predicates the handle had, in       *)
(* their order, ahead of the appended ones.                                *)
(***************************************************************************)
C10_NothingLost ==
    Compiled =>
        /\ Len(query.where) >= Len(before.where)
        /\ SubSeq(query.where, 1, Len(before.where)) = before.where
        /\ Len(SelectSeq(AddedPreds, IsConjunctive))
               = Len(AndConds(filter)) + Len(WhereConds(filter))
        /\ Len(SelectSeq(AddedPreds, IsDisjunctive)) = Len(OrConds(filter))
        /\ SameBag(AddedPreds,
                   Preds(" AND ", AndConds(filter) \o WhereConds(filter))
                   \o Preds(" OR ", OrConds(filter)))
        /\ SameBag(SelectSeq(Added, IsPredicate),
                   Conj(AndConds(filter) \o WhereConds(filter))
                   \o Disj(OrConds(filter)))

\* AND, OR and WHERE conditions were compiled onto a handle with predicates.
C10_Witness ==
    /\ op = "applyFilter"
    /\ before = Used
    /\ AndConds(filter) # <<>>
    /\ OrConds(filter) # <<>>
    /\ WhereConds(filter) # <<>>
    /\ Len(query.where) = Len(before.where) + NumConds(filter)

====
